---- MODULE Spec2Model ----
(***************************************************************************)
(* pMap(iterable, mapper, {concurrency, stopOnError}) of pmap-lit.         *)
(*                                                                         *)
(* One behaviour is one call.  The source is a finite sequence of steps;   *)
(* the n-th call of iterator.next() yields step n, and every call past the *)
(* end yields done.  Pulls settle in the order they were issued (a sync    *)
(* iterator and an async generator both answer next() calls in order).     *)
(* Every await of the code is a point where another strand may run: an     *)
(* action is the synchronous block between two awaits.                     *)
(***************************************************************************)
EXTENDS Integers, Sequences, FiniteSets, TLC

\* Longest source explored.
MaxLen == 3

\* Largest finite concurrency explored.
MaxConc == 2

\* pMapSkip, the unique symbol a mapper returns to drop an element.
pMapSkip == 0

\* A slot of a JS array that was never written.
undefined == -1

\* What the n-th source step does:
\*   "ok"     the pull yields an element and the mapper resolves with a value
\*   "skip"   the pull yields an element and the mapper resolves with pMapSkip
\*   "fail"   the pull yields an element and the mapper rejects
\*   "reject" the pull yields an element that is itself a rejected promise
\*   "throw"  iterator.next() throws
ElementKinds == {"ok", "skip", "fail", "reject"}
Kinds == ElementKinds \cup {"throw"}

Sources == UNION {[1..n -> Kinds] : n \in 0..MaxLen}

\* options.concurrency is a number n/d; d = 0 stands for 1/0 = +Infinity.
POSITIVE_INFINITY == <<1, 0>>

Num(n) == <<n, 1>>

ConcurrencyInputs ==
    {Num(n) : n \in -1..MaxConc} \cup {<<3, 2>>, POSITIVE_INFINITY}

IsSafeInteger(c) == c[2] # 0 /\ c[1] % c[2] = 0

\* index < c, for an integer index.
Less(index, c) == index * c[2] < c[1]

assertConcurrencyAtLeastOne(c) == ~Less(0, <<c[2] - c[1], c[2]>>)

assertConcurrency(c) ==
    (IsSafeInteger(c) \/ c = POSITIVE_INFINITY) /\ ~Less(0, <<c[2] - c[1], c[2]>>)

VARIABLES
    input, concurrency, stopOnError,
    result, errors, skippedIndexesMap,
    isRejected, isResolved, isIterableDone, resolvingCount, currentIndex,
    iterator, pending, runner, tasks, outcome,
    mapperCalls, failureLog, finalizations,
    given, heap, _errors, returned

\* The state of an AggregateError instance and of its caller: the array
\* `given` to the constructor, the arrays allocated (`heap`, by reference),
\* the reference held in this._errors (0 before construction) and the
\* references the calls of errors() returned, oldest first.
aggregateVars == <<given, heap, _errors, returned>>

\* The state of a call of pMap.
pMapVars ==
    <<input, concurrency, stopOnError,
      result, errors, skippedIndexesMap,
      isRejected, isResolved, isIterableDone, resolvingCount, currentIndex,
      iterator, pending, runner, tasks, outcome,
      mapperCalls, failureLog, finalizations>>

vars == <<aggregateVars, pMapVars>>

params == <<input, concurrency, stopOnError>>

----
\* Failures.  `at` is the source step (1-based) the failure belongs to.
Failure(type, at) == [type |-> type, at |-> at, errors |-> <<>>]

PMapError == Failure("PMapError", 0)

AggregateError(errs) == [type |-> "AggregateError", at |-> 0, errors |-> errs]

\* The promise pMap returns.  `alias` says the fulfilment value is the
\* `result` array itself (resolve(result)), not a copy.
Pending == [status |-> "pending", value |-> <<>>, alias |-> FALSE, reason |-> Failure("none", 0)]

Fulfilled(v, a) == [status |-> "resolved", value |-> v, alias |-> a, reason |-> Failure("none", 0)]

Rejected(r) == [status |-> "rejected", value |-> <<>>, alias |-> FALSE, reason |-> r]

\* resolve / _reject of a promise that is already settled do nothing.
SettleOverwrites(o, new) == new

Settle(o, new) == IF o.status = "pending" THEN new ELSE o

----
\* The step of the source the n-th call of iterator.next() meets.
KindAt(n) == IF n <= Len(input) THEN input[n] ELSE "done"

\* The value the mapper resolves with for the element of source step n.
MapperValue(n) == IF input[n] = "skip" THEN pMapSkip ELSE n

\* result[index] = value on a JS array.
ArrayPush(arr, index, value) == Append(arr, value)

ArrayUnshift(arr, index, value) == <<value>> \o arr

ArraySet(arr, index, value) ==
    [k \in 1..(IF index + 1 > Len(arr) THEN index + 1 ELSE Len(arr)) |->
        IF k = index + 1 THEN value
        ELSE IF k <= Len(arr) THEN arr[k] ELSE undefined]

\* The loop building pureResult.
PureResultShifted(res, skipped) ==
    LET F[k \in 0..Len(res)] ==
            IF k = 0 THEN <<>>
            ELSE IF k \in skipped THEN F[k - 1]
            ELSE Append(F[k - 1], res[k])
    IN  F[Len(res)]

PureResult(res, skipped) ==
    LET F[k \in 0..Len(res)] ==
            IF k = 0 THEN <<>>
            ELSE IF (k - 1) \in skipped THEN F[k - 1]
            ELSE Append(F[k - 1], res[k])
    IN  F[Len(res)]

\* errors.push(error)
ErrorsUnshift(errs, e) == <<e>> \o errs

ErrorsPush(errs, e) == Append(errs, e)

\* for (let index = 0; index < concurrency; index++)
LoopGuardInclusive(index, c) == Less(index, c) \/ Num(index) = c

LoopGuard(index, c) == Less(index, c)

\* if (isResolved) return;
NextNeverReturns(resolved) == FALSE

NextReturns(resolved) == resolved

\* const index = currentIndex;
TaskIndexAfterIncrement(current) == current + 1

TaskIndex(current) == current

\* if (isResolved) return;  in the detached task, before the mapper is invoked
TaskNeverReturns(resolved) == FALSE

TaskReturns(resolved) == resolved

\* if (isIterableDone || isRejected) break;
LoopBreaksOnRejection(done, rejected) == rejected

LoopNeverBreaks(done, rejected) == FALSE

LoopBreaks(done, rejected) == done \/ rejected

\* if (!stopOnError && errors.length > 0)
ShouldAggregateNever(stop, errs) == FALSE

ShouldAggregateAlways(stop, errs) == ~stop

ShouldAggregate(stop, errs) == ~stop /\ Len(errs) > 0

\* if (resolvingCount === 0 && !isResolved)
ShouldFinalizeUnguarded(count, resolved) == count = 0

ShouldFinalizeIgnoresCount(count, resolved) == ~resolved

ShouldFinalizeOffByOne(count, resolved) == count = 1 /\ ~resolved

ShouldFinalize(count, resolved) == count = 0 /\ ~resolved

\* What a strand does with a failure it catches, by the place that catches it:
\*   "mapper", "element", "try"  the catch block of the detached task
\*   "catch"                     the inner catch around the retry next()
\*   "runner"                    the catch of the launch loop
CatchIgnoresStopOnError(site, stop) ==
    IF site \in {"mapper", "element", "try"} THEN "record" ELSE "reject"

CatchAlwaysRejects(site, stop) == "reject"

CatchRetriesAgain(site, stop) == IF stop THEN "reject" ELSE "record"

OnCatch(site, stop) ==
    IF site \in {"mapper", "element", "try"}
    THEN IF stop THEN "reject" ELSE "record"
    ELSE "reject"

----
Init ==
    /\ input \in Sources
    /\ concurrency \in ConcurrencyInputs
    /\ stopOnError \in BOOLEAN
    /\ result = <<>>
    /\ errors = <<>>
    /\ skippedIndexesMap = {}
    /\ isRejected = FALSE
    /\ isResolved = FALSE
    /\ isIterableDone = FALSE
    /\ resolvingCount = 0
    /\ currentIndex = 0
    /\ iterator = 0
    /\ pending = <<>>
    /\ tasks = <<>>
    /\ mapperCalls = {}
    /\ failureLog = <<>>
    /\ finalizations = 0
    /\ given = <<>>
    /\ heap = <<>>
    /\ _errors = 0
    /\ returned = <<>>
    /\ IF assertConcurrency(concurrency)
       THEN outcome = Pending /\ runner = [pc |-> "start", index |-> 0]
       ELSE outcome = Rejected(PMapError) /\ runner = [pc |-> "exit", index |-> 0]

\* reject(reason)
Reject(reason) ==
    /\ isRejected' = TRUE
    /\ isResolved' = TRUE
    /\ outcome' = Settle(outcome, Rejected(reason))

\* next() up to its first await: returns at once when the call is settled,
\* calls iterator.next() otherwise.  `queue` is the pulls still outstanding.
CallNextFromLoopOnly(site, task, queue) ==
    IF site = "runner" /\ ~NextReturns(isResolved)
    THEN /\ pending' = Append(queue, [site |-> site, task |-> task, at |-> iterator + 1])
         /\ iterator' = iterator + 1
    ELSE /\ pending' = queue
         /\ iterator' = iterator

CallNext(site, task, queue) ==
    IF NextReturns(isResolved)
    THEN /\ pending' = queue
         /\ iterator' = iterator
    ELSE /\ pending' = Append(queue, [site |-> site, task |-> task, at |-> iterator + 1])
         /\ iterator' = iterator + 1

\* Where a task stands after it called next() from `site`.
AfterCall(site) == IF NextReturns(isResolved) THEN "end" ELSE site

\* The caller of a pull goes on once next() has returned.
TasksResumed(req) ==
    IF req.site = "runner" THEN tasks ELSE [tasks EXCEPT ![req.task].pc = "end"]

RunnerResumed(req) ==
    IF req.site = "runner" THEN [runner EXCEPT !.pc = "resume"] ELSE runner

\* The catch block of the detached task `index`, catching `error` at `site`.
Catch(site, index, error, queue) ==
    /\ failureLog' = Append(failureLog, error)
    /\ IF OnCatch(site, stopOnError) = "reject"
       THEN /\ Reject(error)
            /\ tasks' = [tasks EXCEPT ![index].pc = "end"]
            /\ pending' = queue
            /\ UNCHANGED <<errors, resolvingCount, iterator>>
       ELSE /\ errors' = ErrorsPush(errors, error)
            /\ resolvingCount' = resolvingCount - 1
            /\ CallNext("catch", index, queue)
            /\ tasks' = [tasks EXCEPT ![index].pc = AfterCall("catch")]
            /\ UNCHANGED <<isRejected, isResolved, outcome>>

----
\* The launch loop: its first iteration, and each later one after the
\* awaited next() has returned.
Runner ==
    /\ runner.pc \in {"start", "resume"}
    /\ IF runner.pc = "resume" /\ LoopBreaks(isIterableDone, isRejected)
       THEN /\ runner' = [runner EXCEPT !.pc = "exit"]
            /\ UNCHANGED <<pending, iterator>>
       ELSE LET index == IF runner.pc = "start" THEN 0 ELSE runner.index + 1 IN
            IF LoopGuard(index, concurrency)
            THEN /\ runner' = [pc |-> IF NextReturns(isResolved) THEN "resume" ELSE "await",
                              index |-> index]
                 /\ CallNext("runner", -1, pending)
            ELSE /\ runner' = [pc |-> "exit", index |-> index]
                 /\ UNCHANGED <<pending, iterator>>
    /\ UNCHANGED <<params, result, errors, skippedIndexesMap, isRejected, isResolved,
                   isIterableDone, resolvingCount, currentIndex, tasks, outcome,
                   mapperCalls, failureLog, finalizations>>
    /\ UNCHANGED aggregateVars

\* iterator.next() settles with an element: the task is dispatched.
PullValue ==
    /\ pending # <<>>
    /\ LET req == Head(pending)
           index == TaskIndex(currentIndex)
       IN  /\ KindAt(req.at) \in ElementKinds
           /\ currentIndex' = currentIndex + 1
           /\ resolvingCount' = resolvingCount + 1
           /\ tasks' = (index :> [pc |-> "element", element |-> req.at]) @@ TasksResumed(req)
           /\ runner' = RunnerResumed(req)
           /\ pending' = Tail(pending)
    /\ UNCHANGED <<params, result, errors, skippedIndexesMap, isRejected, isResolved,
                   isIterableDone, iterator, outcome, mapperCalls, failureLog,
                   finalizations>>
    /\ UNCHANGED aggregateVars

\* iterator.next() settles with done: the shutdown block.
PullDone ==
    /\ pending # <<>>
    /\ LET req == Head(pending) IN
           /\ KindAt(req.at) = "done"
           /\ currentIndex' = currentIndex + 1
           /\ isIterableDone' = TRUE
           /\ finalizations' =
                  IF ShouldFinalize(resolvingCount, isResolved)
                  THEN finalizations + 1 ELSE finalizations
           /\ IF ShouldFinalize(resolvingCount, isResolved)
              THEN IF ShouldAggregate(stopOnError, errors)
                   THEN Reject(AggregateError(errors))
                   ELSE /\ isResolved' = TRUE
                        /\ isRejected' = isRejected
                        /\ outcome' = Settle(outcome,
                              IF Cardinality(skippedIndexesMap) = 0
                              THEN Fulfilled(result, TRUE)
                              ELSE Fulfilled(PureResult(result, skippedIndexesMap), FALSE))
              ELSE UNCHANGED <<isRejected, isResolved, outcome>>
           /\ tasks' = TasksResumed(req)
           /\ runner' = RunnerResumed(req)
           /\ pending' = Tail(pending)
    /\ UNCHANGED <<params, result, errors, skippedIndexesMap, resolvingCount, iterator,
                   mapperCalls, failureLog>>
    /\ UNCHANGED aggregateVars

\* iterator.next() throws: next() rejects and the caller's catch runs.
PullThrows ==
    /\ pending # <<>>
    /\ LET req == Head(pending)
           error == Failure("pull", req.at)
       IN  /\ KindAt(req.at) = "throw"
           /\ IF req.site = "runner"
              THEN /\ failureLog' = Append(failureLog, error)
                   /\ IF OnCatch("runner", stopOnError) = "reject"
                      THEN /\ Reject(error)
                           /\ runner' = [runner EXCEPT !.pc = "exit"]
                           /\ UNCHANGED errors
                      ELSE /\ errors' = ErrorsPush(errors, error)
                           /\ runner' = [runner EXCEPT !.pc = "resume"]
                           /\ UNCHANGED <<isRejected, isResolved, outcome>>
                   /\ pending' = Tail(pending)
                   /\ UNCHANGED <<resolvingCount, iterator, tasks>>
              ELSE IF req.site = "catch"
              THEN /\ failureLog' = Append(failureLog, error)
                   /\ IF OnCatch("catch", stopOnError) = "reject"
                      THEN /\ Reject(error)
                           /\ tasks' = [tasks EXCEPT ![req.task].pc = "end"]
                           /\ pending' = Tail(pending)
                           /\ UNCHANGED <<errors, iterator>>
                      ELSE /\ errors' = ErrorsPush(errors, error)
                           /\ CallNext("catch", req.task, Tail(pending))
                           /\ tasks' = [tasks EXCEPT ![req.task].pc = AfterCall("catch")]
                           /\ UNCHANGED <<isRejected, isResolved, outcome>>
                   /\ UNCHANGED <<resolvingCount, runner>>
              ELSE /\ Catch("try", req.task, error, Tail(pending))
                   /\ UNCHANGED runner
    /\ UNCHANGED <<params, result, skippedIndexesMap, isIterableDone, currentIndex,
                   mapperCalls, finalizations>>
    /\ UNCHANGED aggregateVars

\* await nextItem.value settles; the mapper is invoked unless the call is settled.
ElementSettles(index) ==
    /\ index \in DOMAIN tasks
    /\ tasks[index].pc = "element"
    /\ LET at == tasks[index].element IN
       IF input[at] = "reject"
       THEN /\ Catch("element", index, Failure("element", at), pending)
            /\ UNCHANGED mapperCalls
       ELSE /\ IF TaskReturns(isResolved)
               THEN /\ tasks' = [tasks EXCEPT ![index].pc = "end"]
                    /\ UNCHANGED mapperCalls
               ELSE /\ tasks' = [tasks EXCEPT ![index].pc = "mapper"]
                    /\ mapperCalls' = mapperCalls \cup {[element |-> at, index |-> index]}
            /\ UNCHANGED <<errors, isRejected, isResolved, resolvingCount, iterator,
                           pending, outcome, failureLog>>
    /\ UNCHANGED <<params, result, skippedIndexesMap, isIterableDone, currentIndex,
                   runner, finalizations>>
    /\ UNCHANGED aggregateVars

\* await mapper(element, index) settles.
MapperSettles(index) ==
    /\ index \in DOMAIN tasks
    /\ tasks[index].pc = "mapper"
    /\ LET at == tasks[index].element
           value == MapperValue(at)
       IN  IF input[at] = "fail"
           THEN /\ Catch("mapper", index, Failure("mapper", at), pending)
                /\ UNCHANGED <<result, skippedIndexesMap>>
           ELSE /\ skippedIndexesMap' =
                      IF value = pMapSkip THEN skippedIndexesMap \cup {index}
                      ELSE skippedIndexesMap
                /\ result' = ArraySet(result, index, value)
                /\ resolvingCount' = resolvingCount - 1
                /\ CallNext("try", index, pending)
                /\ tasks' = [tasks EXCEPT ![index].pc = AfterCall("try")]
                /\ UNCHANGED <<errors, isRejected, isResolved, outcome, failureLog>>
    /\ UNCHANGED <<params, isIterableDone, currentIndex, runner, mapperCalls,
                   finalizations>>
    /\ UNCHANGED aggregateVars

Next ==
    \/ Runner
    \/ PullValue
    \/ PullDone
    \/ PullThrows
    \/ \E index \in 0..MaxLen : ElementSettles(index)
    \/ \E index \in 0..MaxLen : MapperSettles(index)

Spec == Init /\ [][Next]_vars

----
\* Derived notions used by the properties.

\* The call was accepted: the input validation of pMap passed.
Accepted == assertConcurrency(concurrency)

\* index <= c, for an integer index.
LessEq(index, c) == index * c[2] <= c[1]

\* Indexes of the tasks whose mapper has been invoked and has not settled.
InFlight == {index \in DOMAIN tasks : tasks[index].pc = "mapper"}

\* Nothing is left to run: no pull outstanding, no task awaiting its
\* element or its mapper, the launch loop left.
Idle ==
    /\ pending = <<>>
    /\ runner.pc = "exit"
    /\ \A index \in DOMAIN tasks : tasks[index].pc \notin {"element", "mapper"}

\* The value the caller's promise is fulfilled with.
ResolvedValue == IF outcome.alias THEN result ELSE outcome.value

\* map(mapper, source) with the pMapSkip results removed.
Expected ==
    SelectSeq([n \in 1..Len(input) |-> MapperValue(n)], LAMBDA v : v # pMapSkip)

NoFailure == \A n \in 1..Len(input) : input[n] \in {"ok", "skip"}

\* The step of the source a pull settles.
PullSettled == pending # <<>> /\ (pending' = <<>> \/ Head(pending') # Head(pending))

----
\* C1: when no pull and no transform fails, the call never rejects, it is
\* resolved once nothing is left to run, and the value it resolves with is
\* the mapper's results in source order without the pMapSkip ones.
C1_OrderedResult ==
    (Accepted /\ NoFailure) =>
        /\ outcome.status # "rejected"
        /\ outcome.status = "resolved" => ResolvedValue = Expected
        /\ Idle => outcome.status = "resolved"

\* A three-element source whose second element is skipped, mapped two at a
\* time, has resolved with the first and the third result.
C1_Witness ==
    /\ Len(input) = 3
    /\ input[2] = "skip"
    /\ concurrency = Num(2)
    /\ outcome.status = "resolved"
    /\ ResolvedValue = <<1, 3>>
    /\ Idle

\* C2: the number of mapper invocations started and not yet settled never
\* exceeds concurrency, whatever stopOnError is and whatever has failed.
C2_WindowBound == Accepted => LessEq(Cardinality(InFlight), concurrency)

\* The window is full after a failure was recorded.
C2_Witness ==
    /\ concurrency = Num(2)
    /\ Cardinality(InFlight) = 2
    /\ failureLog # <<>>
    /\ ~stopOnError

\* C3: once every pull and every mapper invocation has completed and nothing
\* is left to run, the call is settled.
C3_Settles == (Accepted /\ Idle) => outcome.status # "pending"

\* a is an initial part of b.
IsPrefix(a, b) == Len(a) <= Len(b) /\ \A k \in 1..Len(a) : a[k] = b[k]

C5_StopsAtFailure ==
    (Accepted /\ stopOnError /\ concurrency = Num(1)) =>
        \A n \in 1..Len(input) :
            (\E k \in 1..Len(failureLog) : failureLog[k] = Failure("mapper", n)) =>
                /\ outcome = Rejected(Failure("mapper", n))
                /\ iterator = n
                /\ \A call \in mapperCalls : call.element <= n

\* The transform of the second of three elements failed and nothing is left
\* to run.
C5_Witness ==
    /\ stopOnError
    /\ concurrency = Num(1)
    /\ Len(input) = 3
    /\ failureLog = <<Failure("mapper", 2)>>
    /\ outcome = Rejected(Failure("mapper", 2))
    /\ Idle

\* C6: under stopOnError=false a call rejected with a composite has no
\* mapper invocation in flight, has seen the source exhausted, and the
\* composite holds every transform failure of the call.
C6_CompositeAtEnd ==
    (Accepted /\ ~stopOnError /\ outcome.reason.type = "AggregateError") =>
        /\ InFlight = {}
        /\ isIterableDone
        /\ \A k \in 1..Len(failureLog) :
               failureLog[k].type = "mapper" =>
                   \E j \in 1..Len(outcome.reason.errors) :
                       outcome.reason.errors[j] = failureLog[k]

\* C7: under stopOnError=false the failures of the composite are in the
\* order in which they occurred: the composite is the log of the failures
\* seen up to the rejection.
C7_CompletionOrder ==
    (Accepted /\ ~stopOnError /\ outcome.reason.type = "AggregateError") =>
        IsPrefix(outcome.reason.errors, failureLog)

\* The transform of the second element failed before the transform of the
\* first, and the composite lists them in that order.
C7_Witness ==
    /\ ~stopOnError
    /\ outcome.status = "rejected"
    /\ outcome.reason.type = "AggregateError"
    /\ outcome.reason.errors = <<Failure("mapper", 2), Failure("mapper", 1)>>

\* The pull a step settles threw.
PullFailed == PullSettled /\ KindAt(Head(pending).at) = "throw"

\* The failure of the pull at the head of the queue.
HeadFailure == Failure("pull", Head(pending).at)

\* The step rejects the call while no pull has returned done yet.
RejectsMidStream ==
    outcome.status = "pending" /\ outcome'.status = "rejected" /\ ~isIterableDone'

\* C8 as stated: under stopOnError=false the call is rejected before the
\* source is exhausted only by a pull that fails right after a failure
\* handled on the same strand; any other failing pull is appended to the
\* ErrorLog and leaves the call unsettled.
C8_Original ==
    [][(Accepted /\ ~stopOnError) =>
        /\ RejectsMidStream => (PullFailed /\ Head(pending).site = "catch")
        /\ (PullFailed /\ Head(pending).site # "catch") =>
               (errors' = Append(errors, HeadFailure) /\ outcome' = outcome)]_vars

\* C8 amended: under stopOnError=false the call is rejected before the
\* source is exhausted only by a failing pull, with that pull failure as the
\* reason, and only when the pull was issued by the launch loop or right
\* after a failure handled on the same strand; a pull failing in the launch
\* loop rejects the call; a pull failing right after a successful transform
\* is appended to the ErrorLog and leaves the call unsettled.
C8_MidStreamRejection ==
    [][(Accepted /\ ~stopOnError) =>
        /\ RejectsMidStream =>
               /\ PullFailed
               /\ Head(pending).site \in {"catch", "runner"}
               /\ outcome' = Rejected(HeadFailure)
        /\ (PullFailed /\ Head(pending).site = "runner" /\ outcome.status = "pending") =>
               (outcome' = Rejected(HeadFailure) /\ errors' = errors)
        /\ (PullFailed /\ Head(pending).site = "try") =>
               (errors' = Append(errors, HeadFailure) /\ outcome' = outcome)]_vars

\* The very first pull failed under stopOnError=false: the call is rejected
\* with that failure, nothing was logged, the source is not exhausted.
C8_Witness ==
    /\ ~stopOnError
    /\ outcome = Rejected(Failure("pull", 1))
    /\ errors = <<>>
    /\ ~isIterableDone

\* C9: under stopOnError=false, when the pull a strand issued from its catch
\* block (after logging a failure) fails, a call not yet settled is rejected
\* with that pull failure itself, nothing is appended to the ErrorLog, the
\* strand ends without another pull, and an ended strand never pulls again.
C9_TerminalPull ==
    [][(Accepted /\ ~stopOnError) =>
        /\ (PullFailed /\ Head(pending).site = "catch") =>
               /\ outcome.status = "pending" => outcome' = Rejected(HeadFailure)
               /\ isResolved' /\ isRejected'
               /\ errors' = errors
               /\ iterator' = iterator
               /\ tasks'[Head(pending).task].pc = "end"
        /\ \A index \in DOMAIN tasks :
               tasks[index].pc = "end" =>
                   /\ tasks'[index].pc = "end"
                   /\ \A k \in 1..Len(pending') : pending'[k].task = index =>
                          \E j \in 1..Len(pending) : pending[j] = pending'[k]]_vars

\* The transform of the first element failed and was logged, the pull that
\* followed failed, and the call is rejected with that pull failure.
C9_Witness ==
    /\ ~stopOnError
    /\ concurrency = Num(1)
    /\ errors = <<Failure("mapper", 1)>>
    /\ outcome = Rejected(Failure("pull", 2))
    /\ tasks[0].pc = "end"
    /\ iterator = 2

\* C10: under stopOnError=true a failing pull rejects a call not yet
\* settled with that pull failure, takes no index and dispatches no task,
\* and once a pull has failed no pull is issued any more; with concurrency 1
\* a source failing on its k-th pull has been advanced k times and the
\* mapper was invoked for the k-1 elements before it and for no other.
C10_PullFailureStops ==
    /\ [](( Accepted /\ stopOnError /\ concurrency = Num(1)) =>
            \A k \in 1..Len(input) :
                (\E j \in 1..Len(failureLog) : failureLog[j] = Failure("pull", k)) =>
                    /\ outcome = Rejected(Failure("pull", k))
                    /\ iterator = k
                    /\ {call.element : call \in mapperCalls} = 1..(k - 1))
    /\ [][(Accepted /\ stopOnError) =>
            /\ PullFailed =>
                   /\ outcome.status = "pending" => outcome' = Rejected(HeadFailure)
                   /\ currentIndex' = currentIndex
                   /\ resolvingCount' = resolvingCount
                   /\ DOMAIN tasks' = DOMAIN tasks
                   /\ mapperCalls' = mapperCalls
            /\ (\E j \in 1..Len(failureLog) : failureLog[j].type = "pull") =>
                   iterator' = iterator]_vars

\* With concurrency 1 the second pull of a three-step source failed: the
\* source was advanced twice and the mapper ran for the first element only.
C10_Witness ==
    /\ stopOnError
    /\ concurrency = Num(1)
    /\ Len(input) = 3
    /\ input[2] = "throw"
    /\ outcome = Rejected(Failure("pull", 2))
    /\ iterator = 2
    /\ mapperCalls = {[element |-> 1, index |-> 0]}
    /\ Idle

----
\* The number of elements the source yields before its step n.
ElementsBefore(n) == Cardinality({m \in 1..(n - 1) : input[m] \in ElementKinds})

\* C11: the index the mapper is invoked with is the element's zero-based
\* position among the elements pulled from the source, whatever order the
\* invocations complete in, and no index is given to two elements.
C11_IndexIsPosition ==
    /\ \A call \in mapperCalls : call.index = ElementsBefore(call.element)
    /\ \A a, b \in mapperCalls : a.index = b.index => a.element = b.element

\* The third element is handed to the mapper with index 2 while the first
\* invocation is still running and the second has completed.
C11_Witness ==
    /\ concurrency = Num(2)
    /\ [element |-> 3, index |-> 2] \in mapperCalls
    /\ 0 \in InFlight
    /\ tasks[1].pc = "end"
----
\* C12: the outcome is settled at most once: once the promise is settled no
\* later step changes its state, its rejection reason or the sequence it
\* resolved with, and the shutdown block is entered at most once however
\* many pulls return done.
C12_SettledOnce ==
    /\ [](finalizations <= 1)
    /\ [][outcome.status # "pending" =>
             /\ outcome' = outcome
             /\ ResolvedValue' = ResolvedValue]_vars

\* Two strands and the launch loop each saw a pull return done after a
\* two-element source was mapped two at a time; the shutdown block ran once.
C12_Witness ==
    /\ concurrency = Num(2)
    /\ Len(input) = 2
    /\ outcome.status = "resolved"
    /\ finalizations = 1
    /\ iterator >= Len(input) + 2
    /\ currentIndex = iterator
    /\ Idle
----
----
----
\* C15: on an empty source the call resolves with the empty sequence for
\* every accepted concurrency and both values of stopOnError, and the
\* mapper is never invoked.
C15_EmptySource ==
    (Accepted /\ Len(input) = 0) =>
        /\ outcome.status # "rejected"
        /\ outcome.status = "resolved" => ResolvedValue = <<>>
        /\ mapperCalls = {}
        /\ tasks = <<>>
        /\ runner.pc = "exit" => outcome.status = "resolved"

\* The first pull of an unbounded call on an empty source returned done and
\* the call has resolved with the empty sequence.
C15_Witness ==
    /\ Len(input) = 0
    /\ concurrency = POSITIVE_INFINITY
    /\ ~stopOnError
    /\ iterator = 1
    /\ outcome = Fulfilled(<<>>, TRUE)
    /\ Idle
----
\* Every step of the source yields an element and the mapper returns
\* pMapSkip for each of them.
AllSkipped == Len(input) > 0 /\ \A n \in 1..Len(input) : input[n] = "skip"

\* C16: when the mapper returns pMapSkip for every element of a non-empty
\* source, the call does not reject, and it resolves with the empty
\* sequence once nothing is left to run.
C16_AllSkipped ==
    (Accepted /\ AllSkipped) =>
        /\ outcome.status # "rejected"
        /\ outcome.status = "resolved" =>
               /\ ResolvedValue = <<>>
               /\ Cardinality(mapperCalls) = Len(input)
        /\ Idle => outcome.status = "resolved"

\* Three elements, all skipped, mapped two at a time: the call resolved
\* with the empty sequence, a fresh array built from three skipped slots.
C16_Witness ==
    /\ Len(input) = 3
    /\ AllSkipped
    /\ concurrency = Num(2)
    /\ skippedIndexesMap = {0, 1, 2}
    /\ outcome = Fulfilled(<<>>, FALSE)
    /\ Idle
----
\* A step that calls iterator.next().
PullIssued == iterator' # iterator

\* The request such a step adds to the outstanding pulls.
IssuedRequest == pending'[Len(pending')]

\* C17 as stated: once a pull has returned done, no strand issues another
\* pull on the source.
C17_Original == [][isIterableDone => ~PullIssued]_vars

\* C17: once a pull has returned done, the launch loop issues no further
\* pull; a pull is then issued only by a strand that has just finished a
\* task (its mapper settled, or a pull it retried failed), and only while
\* the call is not settled.
C17_PullsAfterDone ==
    [][(isIterableDone /\ PullIssued) =>
           /\ ~isResolved
           /\ IssuedRequest.site \in {"try", "catch"}
           /\ IssuedRequest.task \in DOMAIN tasks
           /\ tasks[IssuedRequest.task].pc \in {"mapper", "element", "try", "catch"}]_vars

\* The launch loop's second pull on a one-element source returned done while
\* the element's mapper was running; the mapper has completed and its strand
\* has issued a third pull.
C17_Witness ==
    /\ Len(input) = 1
    /\ concurrency = POSITIVE_INFINITY
    /\ isIterableDone
    /\ ~isResolved
    /\ runner.pc = "exit"
    /\ pending = <<[site |-> "try", task |-> 0, at |-> 3]>>
----
\* The promise is settled.
Settled == outcome.status # "pending"

\* C18 as stated: after the call has settled, the result array and the
\* error list are left unchanged.
C18_Original == [][Settled => (result' = result /\ errors' = errors)]_vars

\* C18: after the call has settled the outcome handed to the caller never
\* changes and the shutdown block reads neither array again; after a
\* resolution both arrays are left unchanged.  After a rejection, work
\* dispatched before it still writes: a mapper that was in flight stores
\* its result in its own slot, and under stopOnError = false a failure
\* caught later is still appended to the error list.
C18_WritesAfterSettlement ==
    [][Settled =>
           /\ outcome' = outcome
           /\ finalizations' = finalizations
           /\ outcome.status = "resolved" => (result' = result /\ errors' = errors)
           /\ result' # result =>
                  \E index \in InFlight :
                      /\ result' = ArraySet(result, index, MapperValue(tasks[index].element))
                      /\ tasks'[index].pc = "end"
           /\ errors' # errors =>
                  /\ ~stopOnError
                  /\ failureLog' # failureLog
                  /\ errors' = Append(errors, failureLog'[Len(failureLog')])]_vars

\* The launch loop's third pull failed and rejected the call while two
\* mappers were running; since then the first one stored its result and
\* the second one's failure was logged, and no strand pulled again.
C18_Witness ==
    /\ input = <<"ok", "fail", "throw">>
    /\ concurrency = POSITIVE_INFINITY
    /\ ~stopOnError
    /\ outcome = Rejected(Failure("pull", 3))
    /\ iterator = 3
    /\ result = <<1>>
    /\ errors = <<Failure("mapper", 2)>>
    /\ Idle
----
\* Indexes of the tasks dispatched whose mapper has not been invoked yet.
AwaitingElement == {index \in DOMAIN tasks : tasks[index].pc = "element"}

\* C19: after the call has settled, no step calls iterator.next() and no
\* mapper invocation begins: a task whose element was pulled before the
\* settlement and whose mapper was not invoked yet ends without invoking it.
C19_NoNewWork ==
    [][(Accepted /\ isResolved) =>
           /\ iterator' = iterator
           /\ mapperCalls' = mapperCalls
           /\ InFlight' \subseteq InFlight
           /\ \A index \in AwaitingElement : tasks'[index].pc \in {"element", "end"}]_vars

\* The second element was pulled, then the first element's mapper failed
\* and rejected the call; the second task has ended and its mapper was
\* never invoked, although it would have succeeded.
C19_Witness ==
    /\ input = <<"fail", "ok">>
    /\ stopOnError
    /\ concurrency = Num(2)
    /\ outcome = Rejected(Failure("mapper", 1))
    /\ DOMAIN tasks = {0, 1}
    /\ tasks[1].pc = "end"
    /\ mapperCalls = {[element |-> 1, index |-> 0]}
    /\ iterator = 2
    /\ Idle
----
\* No pull fails and every element's value resolves: the only failures
\* the source can lead to are the mapper's.
OnlyMapperFails == \A n \in 1..Len(input) : input[n] \in {"ok", "skip", "fail"}

\* The steps of the source whose mapper invocation fails.
FailingElements == {n \in 1..Len(input) : input[n] = "fail"}

\* C20: under stopOnError = false a failing mapper does not stop the
\* processing.  Provided no pull fails, when the call settles every element
\* has been pulled, the mapper has been invoked once for each of them and
\* every invocation has completed, however many of them failed; and the
\* call does settle once nothing is left to run.
C20_FailuresDoNotStop ==
    (Accepted /\ ~stopOnError /\ OnlyMapperFails) =>
        /\ Settled =>
               /\ iterator > Len(input)
               /\ DOMAIN tasks = 0..(Len(input) - 1)
               /\ {call.element : call \in mapperCalls} = 1..Len(input)
               /\ Cardinality(mapperCalls) = Len(input)
               /\ InFlight = {}
               /\ Len(errors) = Cardinality(FailingElements)
        /\ Idle => Settled

\* The first and the third of three mappers failed; the second ran
\* nevertheless, and the call rejected with both failures at the end.
C20_Witness ==
    /\ input = <<"fail", "ok", "fail">>
    /\ ~stopOnError
    /\ concurrency = Num(1)
    /\ Cardinality(mapperCalls) = 3
    /\ result = <<undefined, 2>>
    /\ outcome = Rejected(AggregateError(<<Failure("mapper", 1), Failure("mapper", 3)>>))
    /\ Idle
----
\* C21: under stopOnError = false, once a failure is in the error list the
\* call does not resolve: if it settles, it rejects with the composite
\* failure or with the failure of a pull.
C21_NoResolutionAfterFailure ==
    (Accepted /\ ~stopOnError /\ errors # <<>>) =>
        /\ outcome.status # "resolved"
        /\ outcome.status = "rejected" =>
               outcome.reason.type \in {"AggregateError", "pull"}

\* The second mapper failed and the third succeeded; the pull after it
\* returned done and the call rejected with the composite, although two
\* results were stored.
C21_Witness ==
    /\ input = <<"ok", "fail", "ok">>
    /\ ~stopOnError
    /\ concurrency = Num(2)
    /\ result = <<1, undefined, 3>>
    /\ outcome = Rejected(AggregateError(<<Failure("mapper", 2)>>))
    /\ Idle
----
\* Indexes of the tasks dispatched that have neither stored a result nor
\* had their failure recorded.
Uncompleted == {index \in DOMAIN tasks : tasks[index].pc \in {"element", "mapper"}}

\* C22: before the call settles, resolvingCount is the number of tasks
\* dispatched and not yet completed; in particular it is never negative.
C22_CounterExact ==
    (Accepted /\ ~Settled) =>
        /\ resolvingCount = Cardinality(Uncompleted)
        /\ resolvingCount >= 0
----
\* Indexes of the tasks whose mapper returns in this step.
Succeeding ==
    {index \in InFlight : tasks'[index].pc # "mapper" /\ input[tasks[index].element] # "fail"}

\* C23: the window is refilled per task.  When a mapper returns and the
\* call is not settled, its strand calls iterator.next() in the same step,
\* whatever other invocations are still in flight, and these stay in
\* flight; the element that pull yields is dispatched next.
C23_RefillPerTask ==
    [][\A index \in Succeeding :
           ~isResolved =>
               /\ PullIssued
               /\ IssuedRequest = [site |-> "try", task |-> index, at |-> iterator + 1]
               /\ InFlight' = InFlight \ {index}
               /\ resolvingCount' = resolvingCount - 1]_vars

\* Mapping two at a time: the second element's mapper has returned and the
\* element at index 2 is in flight together with the one at index 0.
C23_Witness ==
    /\ concurrency = Num(2)
    /\ InFlight = {0, 2}
    /\ tasks[1].pc = "end"
    /\ Len(result) = 2
    /\ ~isIterableDone
    /\ ~Settled
----
\* The number of elements the source yields.
TotalElements == ElementsBefore(Len(input) + 1)

\* A pull issued by the launch loop is outstanding.
RunnerAwaited == \E k \in 1..Len(pending) : pending[k].site = "runner"

\* C24: the launch loop terminates for every finite source, also when
\* concurrency is Infinity or larger than the number of elements.  It is
\* never blocked: it is either able to take its next step or awaiting a
\* pull that is able to settle.  Each of its steps leaves the loop or
\* moves to the next iteration, it issues a pull only while no pull has
\* returned done and the call has not rejected, and its iteration index
\* never exceeds the number of elements pulled so far: it issues at most
\* that number plus one pulls.
C24_LaunchLoopTerminates ==
    /\ [](Accepted =>
              /\ runner.index <= Cardinality(DOMAIN tasks)
              /\ runner.index <= TotalElements
              /\ runner.pc \in {"start", "resume"} => ENABLED Runner
              /\ runner.pc = "await" =>
                     (RunnerAwaited /\ ENABLED (PullValue \/ PullDone \/ PullThrows)))
    /\ [][runner'.pc = "exit"
              \/ runner'.index = runner.index
              \/ (runner.pc = "resume" /\ runner'.index = runner.index + 1)]_vars
    /\ [][(PullIssued /\ IssuedRequest.site = "runner") =>
              /\ ~isIterableDone
              /\ ~isRejected
              /\ runner'.index < iterator']_vars

\* With unbounded concurrency on a two-element source the launch loop has
\* left after its third pull returned done.
C24_Witness ==
    /\ Len(input) = 2
    /\ TotalElements = 2
    /\ concurrency = POSITIVE_INFINITY
    /\ runner = [pc |-> "exit", index |-> 2]
    /\ iterator = 3
    /\ isIterableDone
    /\ ~isRejected
----
----
\* The slots of the result array that have been written.
Written == {k \in 1..Len(result) : result[k] # undefined}

\* C26: every slot of the result array is written at most once, by the
\* task of its index, and an index is in skippedIndexesMap exactly when its
\* slot holds pMapSkip.  The shutdown block changes neither the array nor
\* the map: the sequence it resolves with after removing the skipped slots
\* is a fresh one, and the slots keep their pMapSkip.
C26_SlotsWrittenOnce ==
    /\ [](/\ \A index \in skippedIndexesMap :
                 index + 1 <= Len(result) /\ result[index + 1] = pMapSkip
          /\ \A k \in Written : result[k] = pMapSkip => (k - 1) \in skippedIndexesMap
          /\ \A k \in Written :
                 /\ (k - 1) \in DOMAIN tasks
                 /\ tasks[k - 1].pc \in {"try", "catch", "end"}
                 /\ result[k] = MapperValue(tasks[k - 1].element))
    /\ [][/\ \A k \in Written : k <= Len(result') /\ result'[k] = result[k]
          /\ Cardinality(Written') <= Cardinality(Written) + 1
          /\ skippedIndexesMap \subseteq skippedIndexesMap'
          /\ finalizations' # finalizations =>
                 /\ result' = result
                 /\ skippedIndexesMap' = skippedIndexesMap
                 /\ (outcome'.status = "resolved" /\ skippedIndexesMap # {}) =>
                        (~outcome'.alias /\ outcome'.value = PureResult(result, skippedIndexesMap))]_vars

\* The second of three mappers returned pMapSkip: the call resolved with
\* the first and third results, and the array still holds pMapSkip in the
\* second slot.
C26_Witness ==
    /\ concurrency = Num(2)
    /\ result = <<1, pMapSkip, 3>>
    /\ skippedIndexesMap = {1}
    /\ outcome = Fulfilled(<<1, 3>>, FALSE)
    /\ finalizations = 1
    /\ Idle
----
\* The AggregateError class on its own: an instance is constructed from an
\* array of failures, and its caller calls errors() and mutates the arrays
\* it got back.

\* Longest array given to the constructor.
MaxErrors == 2

\* Most calls of errors() on the instance.
MaxCalls == 2

\* type ErrorLike = Error | { message: string } | string
ErrorLikes ==
    { [kind |-> "Error", message |-> "a"],
      [kind |-> "object", message |-> "b"],
      [kind |-> "string", message |-> "c"] }

ErrorInputs == UNION {[1..n -> ErrorLikes] : n \in 0..MaxErrors}

\* The callback of errors.map in the constructor: an Error is kept, a plain
\* object or a string becomes a new Error with its message.
Normalize(error) ==
    IF error.kind = "Error" THEN error
    ELSE [kind |-> "Error", message |-> error.message]

\* errors.map(...): a new array, one entry per entry of `arr`, same order.
ArrayMapReversed(arr) == [k \in 1..Len(arr) |-> Normalize(arr[Len(arr) + 1 - k])]

ArrayMap(arr) == [k \in 1..Len(arr) |-> Normalize(arr[k])]

\* this._errors.slice(): a new array holding the entries of the one at `ref`.
SliceAliases(h, ref) == [heap |-> h, ref |-> ref]

Slice(h, ref) ==
    LET new == Len(h) + 1
    IN  [heap |-> Append(h, h[ref]), ref |-> new]

\* No call of pMap is under way.
NoCall ==
    /\ input = <<>>
    /\ concurrency = Num(1)
    /\ stopOnError = TRUE
    /\ result = <<>>
    /\ errors = <<>>
    /\ skippedIndexesMap = {}
    /\ isRejected = FALSE
    /\ isResolved = FALSE
    /\ isIterableDone = FALSE
    /\ resolvingCount = 0
    /\ currentIndex = 0
    /\ iterator = 0
    /\ pending = <<>>
    /\ runner = [pc |-> "exit", index |-> 0]
    /\ tasks = <<>>
    /\ outcome = Pending
    /\ mapperCalls = {}
    /\ failureLog = <<>>
    /\ finalizations = 0

\* new AggregateError(errors)
AggregateInit ==
    /\ NoCall
    /\ given \in ErrorInputs
    /\ heap = <<ArrayMap(given)>>
    /\ _errors = 1
    /\ returned = <<>>

\* errors()
AggregateErrorErrors ==
    /\ Len(returned) < MaxCalls
    /\ LET copy == Slice(heap, _errors) IN
           /\ heap' = copy.heap
           /\ returned' = Append(returned, copy.ref)
    /\ UNCHANGED <<given, _errors, pMapVars>>

\* A failure the caller puts into an array it got from errors().
Foreign == [kind |-> "Error", message |-> "x"]

\* The caller mutates the array the last call of errors() returned:
\* push, pop, and an assignment to its first entry.
CallerPush ==
    /\ returned # <<>>
    /\ LET ref == returned[Len(returned)] IN
           /\ Len(heap[ref]) <= Len(given)
           /\ heap' = [heap EXCEPT ![ref] = Append(@, Foreign)]
    /\ UNCHANGED <<given, _errors, returned, pMapVars>>

CallerPop ==
    /\ returned # <<>>
    /\ LET ref == returned[Len(returned)] IN
           /\ Len(heap[ref]) > 0
           /\ heap' = [heap EXCEPT ![ref] = SubSeq(@, 1, Len(@) - 1)]
    /\ UNCHANGED <<given, _errors, returned, pMapVars>>

CallerSet ==
    /\ returned # <<>>
    /\ LET ref == returned[Len(returned)] IN
           /\ Len(heap[ref]) > 0
           /\ heap[ref][1] # Foreign
           /\ heap' = [heap EXCEPT ![ref][1] = Foreign]
    /\ UNCHANGED <<given, _errors, returned, pMapVars>>

AggregateNext ==
    \/ AggregateErrorErrors
    \/ CallerPush
    \/ CallerPop
    \/ CallerSet

AggregateSpec == AggregateInit /\ [][AggregateNext]_vars

\* The failures given to the constructor, each as an Error with its message.
Failures == [k \in 1..Len(given) |-> [kind |-> "Error", message |-> given[k].message]]

\* C27: errors() returns the failures given to the constructor, normalized,
\* one per failure and in the order given, in an array of its own: whatever
\* the caller does to an array it got back, the array held by the instance
\* is unchanged and every later call of errors() returns the same failures
\* again.
C27_IndependentCopy ==
    /\ [](_errors # 0 => heap[_errors] = Failures)
    /\ [][AggregateErrorErrors =>
              /\ heap'[returned'[Len(returned')]] = Failures
              /\ returned'[Len(returned')] \notin {_errors} \cup {returned[k] : k \in 1..Len(returned)}]_vars

\* The caller overwrote the first entry of the array the first call
\* returned and pushed onto it; the second call returned the two failures
\* given to the constructor, in their order.
C27_Witness ==
    /\ given = <<[kind |-> "string", message |-> "c"], [kind |-> "Error", message |-> "a"]>>
    /\ returned = <<2, 3>>
    /\ heap[2] = <<Foreign, [kind |-> "Error", message |-> "a"], Foreign>>
    /\ heap[3] = <<[kind |-> "Error", message |-> "c"], [kind |-> "Error", message |-> "a"]>>
    /\ heap[_errors] = heap[3]

====
